---- MODULE Spec2Model ----
(***************************************************************************)
(* State-machine model of h2csmuggler.py: one run of main (single-proxy    *)
(* test / exploit mode) or one invocation of scan (batch test mode)         *)
(* against a peer whose behaviour on every socket operation is chosen by    *)
(* the environment.                                                         *)
(*                                                                          *)
(* Bytes of the HTTP/1.1 upgrade response are sequences of one-character    *)
(* strings.  Bytes of the HTTP/2 tunnel are abstracted to the events that   *)
(* h2's receive_data decodes from them (one record per event).              *)
(***************************************************************************)
EXTENDS Naturals, Sequences, FiniteSets

\* ---------------------------------------------------------------- bounds
\* Largest number of target URLs of one exploit run (len(urls), line 162-167).
MaxUrls == 2
\* Largest number of HTTP/2 events the peer emits over one connection.
MaxFrames == 3
\* Largest number of events decoded from the bytes of one recv.
MaxBatch == 2

\* ------------------------------------------------------- bytes and parsing
CR == "\r"
LF == "\n"
SP == " "

\* bytes.split() separators that occur in the modelled alphabet
IsSpace(c) == c \in {CR, LF, SP}

CRLFCRLF == <<CR, LF, CR, LF>>

\* index of the first occurrence of \r\n\r\n in s, 0 when there is none
FindCRLFCRLF(s) ==
  LET hits == {i \in 1..Len(s) : i + 3 <= Len(s) /\ SubSeq(s, i, i + 3) = CRLFCRLF}
  IN IF hits = {} THEN 0 ELSE CHOOSE i \in hits : \A j \in hits : i <= j

\* b'\r\n\r\n' in data
HasCRLFCRLF(s) == FindCRLFCRLF(s) # 0

\* data.split(b'\r\n\r\n', 1)[0]
HeadersOf(s) == SubSeq(s, 1, FindCRLFCRLF(s) - 1)

\* data.split(b'\r\n\r\n', 1)[1]
RestOf(s) == SubSeq(s, FindCRLFCRLF(s) + 4, Len(s))

RECURSIVE SplitFrom(_, _, _)
\* bytes.split(): the maximal runs of non-whitespace of s, in order
\* (i: next index to read, cur: the run being read)
SplitFrom(s, i, cur) ==
  IF i > Len(s)
    THEN IF cur = <<>> THEN <<>> ELSE <<cur>>
    ELSE IF IsSpace(s[i])
      THEN IF cur = <<>> THEN SplitFrom(s, i + 1, <<>>)
                         ELSE <<cur>> \o SplitFrom(s, i + 1, <<>>)
      ELSE SplitFrom(s, i + 1, Append(cur, s[i]))

Split(s) == SplitFrom(s, 1, <<>>)

\* b'101'
Code101 == <<"1", "0", "1">>

\* a status test that accepts 101 anywhere in the header block
StatusIs101_AnyToken(split_headers) ==
  \E i \in 1..Len(split_headers) : split_headers[i] = Code101

\* split_headers[1] != b'101' (Python index 1 is the second token)
StatusIs101(split_headers) == split_headers[2] = Code101

\* split_headers[1] raises IndexError
StatusIndexError(split_headers) == Len(split_headers) < 2

\* ------------------------------------------------ the peer's upgrade answers
Version == <<"H">>

StatusCodes ==
  { Code101, <<"4", "0", "3">>, <<"1", "0", "1", "0">>, <<"1", "0">> }

Reasons == { <<>>, <<SP, "S">>, <<SP, "1", "0", "1">> }

HeaderBlocks == { <<>>, <<"u", ":", SP, "1", "0", "1", CR, LF>> }

\* a well-formed response: status line, header lines, empty line
Render(code, reason, hdrs) ==
  Version \o <<SP>> \o code \o reason \o <<CR, LF>> \o hdrs \o <<CR, LF>>

WellFormed ==
  { [code |-> c, text |-> Render(c, r, h)] :
      c \in StatusCodes, r \in Reasons, h \in HeaderBlocks }

\* answers without a status code (code <<>>): empty, garbage, truncated
Malformed ==
  { [code |-> <<>>, text |-> t] :
      t \in { <<>>, <<"H", SP>>, <<"H", CR, LF, CR, LF>>, CRLFCRLF } }

\* a refusal that carries a body after the empty line
WithBody ==
  { [code |-> <<"4", "0", "3">>,
     text |-> Render(<<"4", "0", "3">>, <<>>, <<>>) \o <<"b", CR, LF, CR, LF>>] }

Responses == WellFormed \cup Malformed \cup WithBody

\* ------------------------------------------------------------ HTTP/2 events
\* RST_STREAM error codes the peer uses (REFUSED_STREAM, CANCEL)
ResetCodes == {7, 8}

Ev(k, s, c) == [kind |-> k, sid |-> s, code |-> c]

\* stream ids of one session: 1 is the upgrade request's stream
StreamIds == {2 * i + 1 : i \in 0..MaxUrls}

\* ------------------------------------------------------------------- state
VARIABLES
  mode,        \* "main" (init -> main) or "scan" (one scan(line) call)
  args,        \* the command line / the scanned line
  pc,          \* position in the code
  outcome,     \* how the run ended; "running" until then
  err,         \* the exception in flight or that ended the run
  sock,        \* the socket establish_tcp_connection created
  connection,  \* TRUE when the local `connection` is bound to the socket
  peer,        \* "alive", "closed" (FIN sent) or "reset" (connection broken)
  answer,      \* the status code of the upgrade response the peer chose
  wire,        \* bytes of the upgrade response the peer has not yet delivered
  data,        \* get_upgrade_response: data (response text)
  dataEvents,  \* get_upgrade_response: data (tunnel bytes read after the text)
  success,     \* the ok flag get_upgrade_response returned
  extra_data,  \* the first value get_upgrade_response returned
  sent,        \* everything written to the socket, in order
  highest,     \* h2_connection.highest_outbound_stream_id
  streams,     \* h2_connection: state of each stream as decoded so far
  peerStreams, \* what the peer has emitted on each stream
  budget,      \* events the peer may still emit
  events,      \* getData: events
  newdata,     \* getData: newdata
  gdCaller,    \* who called getData: "main" (line 156) or "ssr" (line 124)
  urlIdx,      \* number of urls the for loop of main has taken
  stream_id,   \* sendSmuggledRequest: stream_id
  early,       \* peer: the tunnel events it delivered with its upgrade answer
  arrived      \* peer: the events delivered since getData was entered

vars == <<mode, args, pc, outcome, err, sock, connection, peer, answer, wire,
          data, dataEvents, success, extra_data, sent, highest, streams,
          peerStreams, budget, events, newdata, gdCaller, urlIdx, stream_id,
          early, arrived>>

Schemes == {"http", "https", "httpx", "ftp"}

NoErr == [type |-> "none", code |-> 0]
Err(t) == [type |-> t, code |-> 0]

NoSock == [state |-> "none", tls |-> FALSE, port |-> 0, shutdowns |-> 0, closes |-> 0]

\* the (None, False) result of get_upgrade_response
NoExtra == [none |-> TRUE, text |-> <<>>, events |-> <<>>]

Init ==
  /\ mode \in {"main", "scan"}
  /\ args \in [scheme : Schemes, test : BOOLEAN,
               data : {"None", "Empty", "Body"}, nurls : 1..MaxUrls]
  /\ mode = "scan" => args.test /\ args.data = "None" /\ args.nurls = 1
  /\ args.test => args.data = "None" /\ args.nurls = 1
  \* nothing after establish_tcp_connection reads the scheme: the exploit
  \* run is explored for one accepted scheme, probes for all
  /\ ~args.test => args.scheme \in {"http", "ftp"}
  /\ pc = "start"
  /\ outcome = "running"
  /\ err = NoErr
  /\ sock = NoSock
  /\ connection = FALSE
  /\ peer = "alive"
  /\ \E r \in Responses : answer = r.code /\ wire = r.text
  /\ data = <<>>
  /\ dataEvents = <<>>
  /\ success = FALSE
  /\ extra_data = NoExtra
  /\ sent = <<>>
  /\ highest = 0
  /\ streams = [s \in StreamIds |-> "idle"]
  /\ peerStreams = [s \in StreamIds |-> "idle"]
  /\ budget = MaxFrames
  /\ events = <<>>
  /\ newdata = <<>>
  /\ gdCaller = "main"
  /\ urlIdx = 0
  /\ stream_id = 0
  /\ early = <<>>
  /\ arrived = <<>>

\* --------------------------------------------------------------- helpers
\* an exception leaves the current function: main has no handler (the
\* process dies with the socket as it is), scan catches it at line 220
Raise(e) ==
  /\ err' = e
  /\ IF mode = "main"
       THEN pc' = "done" /\ outcome' = "exception"
       ELSE pc' = "s_except" /\ outcome' = outcome

\* sys.exit(n)
Exit(o) == pc' = "done" /\ outcome' = o /\ err' = err

Goto(l) == pc' = l /\ outcome' = outcome /\ err' = err

\* str.startswith("http")
StartsWithHttp(scheme) == scheme \in {"http", "https", "httpx"}

\* proxy_url.port or (80 if proxy_url.scheme == "http" else 443), no explicit port
DefaultPort(scheme) == IF scheme = "http" THEN 80 ELSE 443

\* what sendall writes
Msg(k, s, es) == [kind |-> k, sid |-> s, es |-> es, url |-> 0]

\* the HEADERS frame of the request for the i-th url of the list
HeadersMsg(s, es, i) == [Msg("HEADERS", s, es) EXCEPT !.url = i]
UpgradeRequest == Msg("UPGRADE_REQUEST", 0, FALSE)

\* ------------------------------------------------- main / scan: the probe
\* main, lines 129-133
MainStart ==
  /\ mode = "main" /\ pc = "start"
  /\ IF StartsWithHttp(args.scheme) THEN Goto("connect") ELSE Exit("exit1")
  /\ UNCHANGED <<early, arrived, mode, args, sock, connection, peer, answer, wire, data,
                 dataEvents, success, extra_data, sent, highest, streams,
                 peerStreams, budget, events, newdata, gdCaller, urlIdx,
                 stream_id>>

\* scan, lines 200-205: the early return runs the finally block
ScanStart ==
  /\ mode = "scan" /\ pc = "start"
  /\ IF StartsWithHttp(args.scheme) THEN Goto("connect") ELSE Goto("s_finally")
  /\ UNCHANGED <<early, arrived, mode, args, sock, connection, peer, answer, wire, data,
                 dataEvents, success, extra_data, sent, highest, streams,
                 peerStreams, budget, events, newdata, gdCaller, urlIdx,
                 stream_id>>

\* establish_tcp_connection, and the assignment of its result (135 / 207)
establish_tcp_connection ==
  /\ pc = "connect"
  /\ \E ok \in BOOLEAN :
       IF ok
         THEN /\ sock' = [state |-> "open", tls |-> (args.scheme = "https"),
                          port |-> DefaultPort(args.scheme),
                          shutdowns |-> 0, closes |-> 0]
              /\ connection' = TRUE
              /\ peer' = peer
              /\ Goto("h2_init")
         ELSE /\ sock' = [NoSock EXCEPT !.state = "unconnected",
                                        !.tls = (args.scheme = "https"),
                                        !.port = DefaultPort(args.scheme)]
              /\ connection' = FALSE
              /\ peer' = "reset"
              /\ Raise(Err("ConnectError"))
  /\ UNCHANGED <<early, arrived, mode, args, answer, wire, data, dataEvents, success,
                 extra_data, sent, highest, streams, peerStreams, budget,
                 events, newdata, gdCaller, urlIdx, stream_id>>

\* H2Connection(); initiate_upgrade_connection(): stream 1 is taken by the
\* upgrade request (137-138 / 209-210)
initiate_upgrade_connection ==
  /\ pc = "h2_init"
  /\ highest' = 1
  /\ streams' = [streams EXCEPT ![1] = "open"]
  /\ Goto("send_initial")
  /\ UNCHANGED <<early, arrived, mode, args, sock, connection, peer, answer, wire, data,
                 dataEvents, success, extra_data, sent, peerStreams, budget,
                 events, newdata, gdCaller, urlIdx, stream_id>>

\* send_initial_request (140 / 212): sendall may fail
send_initial_request ==
  /\ pc = "send_initial"
  /\ \E ok \in BOOLEAN :
       IF ok
         THEN /\ sent' = Append(sent, UpgradeRequest)
              /\ peerStreams' = [peerStreams EXCEPT ![1] = "open"]
              /\ peer' = peer
              /\ Goto("upg_check")
         ELSE /\ sent' = sent
              /\ peerStreams' = peerStreams
              /\ peer' = "reset"
              /\ Raise(Err("OSError"))
  /\ UNCHANGED <<early, arrived, mode, args, sock, connection, answer, wire, data, dataEvents,
                 success, extra_data, highest, streams, budget,
                 events, newdata, gdCaller, urlIdx, stream_id>>

\* ------------------------------------------------------ the peer's events
\* the events the peer may emit next, given what it has emitted per stream
NextEvents(ps) ==
  {Ev("Other", 0, 0)}
    \cup {Ev("ResponseReceived", s, 0) : s \in {t \in StreamIds : ps[t] = "open"}}
    \cup {Ev("DataReceived", s, 0) : s \in {t \in StreamIds : ps[t] = "hdrs"}}
    \cup {Ev("StreamEnded", s, 0) : s \in {t \in StreamIds : ps[t] = "hdrs"}}
    \cup {Ev("StreamReset", s, c) :
            s \in {t \in StreamIds : ps[t] \in {"open", "hdrs"}}, c \in ResetCodes}

PeerAfter(ps, e) ==
  CASE e.kind = "ResponseReceived" -> [ps EXCEPT ![e.sid] = "hdrs"]
    [] e.kind = "StreamEnded" -> [ps EXCEPT ![e.sid] = "ended"]
    [] e.kind = "StreamReset" -> [ps EXCEPT ![e.sid] = "reset"]
    [] OTHER -> ps

RECURSIVE PeerAfterAll(_, _)
PeerAfterAll(ps, b) ==
  IF b = <<>> THEN ps ELSE PeerAfterAll(PeerAfter(ps, Head(b)), Tail(b))

RECURSIVE Batches(_, _)
\* the event sequences of length <= n the peer may emit from ps
Batches(ps, n) ==
  IF n = 0 THEN {<<>>}
  ELSE {<<>>} \cup
       UNION { { <<e>> \o b : b \in Batches(PeerAfter(ps, e), n - 1) } :
               e \in NextEvents(ps) }

Min(a, b) == IF a <= b THEN a ELSE b

\* ---------------------------------------------------- get_upgrade_response
\* line 81: the while condition
UpgCheck ==
  /\ pc = "upg_check"
  /\ IF HasCRLFCRLF(data) THEN Goto("upg_split") ELSE Goto("upg_recv")
  /\ UNCHANGED <<early, arrived, mode, args, sock, connection, peer, answer, wire, data,
                 dataEvents, success, extra_data, sent, highest, streams,
                 peerStreams, budget, events, newdata, gdCaller, urlIdx,
                 stream_id>>

\* line 82, the peer delivers the next bytes of its answer; with the last of
\* them, after a 101, possibly the first bytes of the tunnel
UpgRecvBytes ==
  /\ pc = "upg_recv" /\ peer = "alive" /\ wire # <<>>
  /\ \E k \in 1..Len(wire) :
       /\ data' = data \o SubSeq(wire, 1, k)
       /\ wire' = SubSeq(wire, k + 1, Len(wire))
       /\ \E b \in Batches(peerStreams, Min(MaxBatch, budget)) :
            /\ b # <<>> => k = Len(wire) /\ answer = Code101
            /\ dataEvents' = b
            /\ early' = b
            /\ peerStreams' = PeerAfterAll(peerStreams, b)
            /\ budget' = budget - Len(b)
  /\ Goto("upg_check")
  /\ UNCHANGED <<arrived, mode, args, sock, connection, peer, answer, success,
                 extra_data, sent, highest, streams, events, newdata,
                 gdCaller, urlIdx, stream_id>>

\* line 82, the peer stays silent for MAX_TIMEOUT: recv raises socket.timeout
UpgRecvTimeout ==
  /\ pc = "upg_recv" /\ peer = "alive"
  /\ Raise(Err("timeout"))
  /\ UNCHANGED <<early, arrived, mode, args, sock, connection, peer, answer, wire, data,
                 dataEvents, success, extra_data, sent, highest, streams,
                 peerStreams, budget, events, newdata, gdCaller, urlIdx,
                 stream_id>>

\* line 82, the peer has closed its side: recv returns b'' and
\* data += b'' leaves data as it was
UpgRecvEof ==
  /\ pc = "upg_recv" /\ peer \in {"alive", "closed"}
  /\ peer' = "closed"
  /\ data' = data \o <<>>
  /\ Goto("upg_check")
  /\ UNCHANGED <<early, arrived, mode, args, sock, connection, answer, wire, dataEvents,
                 success, extra_data, sent, highest, streams, peerStreams,
                 budget, events, newdata, gdCaller, urlIdx, stream_id>>

\* line 82, the peer resets the connection: recv raises ConnectionResetError
UpgRecvReset ==
  /\ pc = "upg_recv" /\ peer = "alive"
  /\ peer' = "reset"
  /\ Raise(Err("ConnectionResetError"))
  /\ UNCHANGED <<early, arrived, mode, args, sock, connection, answer, wire, data, dataEvents,
                 success, extra_data, sent, highest, streams, peerStreams,
                 budget, events, newdata, gdCaller, urlIdx, stream_id>>

\* lines 84-91, and the return to the caller (142 / 214)
UpgSplit ==
  /\ pc = "upg_split"
  /\ LET split_headers == Split(HeadersOf(data))
     IN IF StatusIndexError(split_headers)
          THEN /\ Raise(Err("IndexError"))
               /\ UNCHANGED <<early, arrived, success, extra_data>>
          ELSE /\ IF StatusIs101(split_headers)
                    THEN /\ success' = TRUE
                         /\ extra_data' = [none |-> FALSE, text |-> RestOf(data),
                                           events |-> dataEvents]
                    ELSE /\ success' = FALSE
                         /\ extra_data' = NoExtra
               /\ Goto(IF mode = "main" THEN "m_check" ELSE "s_check")
  /\ data' = <<>>
  /\ dataEvents' = <<>>
  /\ UNCHANGED <<early, arrived, mode, args, sock, connection, peer, answer, wire, sent,
                 highest, streams, peerStreams, budget, events, newdata,
                 gdCaller, urlIdx, stream_id>>

\* ------------------------------------------------------------ scan's tail
\* lines 215-219
ScanCheck ==
  /\ pc = "s_check"
  /\ Goto("s_finally")
  /\ UNCHANGED <<early, arrived, mode, args, sock, connection, peer, answer, wire, data,
                 dataEvents, success, extra_data, sent, highest, streams,
                 peerStreams, budget, events, newdata, gdCaller, urlIdx,
                 stream_id>>

\* lines 220-222: the handler prints the error
ScanExcept ==
  /\ pc = "s_except"
  /\ Goto("s_finally")
  /\ UNCHANGED <<early, arrived, mode, args, sock, connection, peer, answer, wire, data,
                 dataEvents, success, extra_data, sent, highest, streams,
                 peerStreams, budget, events, newdata, gdCaller, urlIdx,
                 stream_id>>

\* connection.shutdown(socket.SHUT_RDWR) raises OSError (ENOTCONN) on a
\* connection that is already broken
ShutdownFails == peer = "reset"

\* lines 223-225: finally; shutdown raises out of scan when it fails
ScanFinally ==
  /\ pc = "s_finally"
  /\ IF ~connection
       THEN Exit("returned") /\ sock' = sock
       ELSE IF ShutdownFails
         THEN /\ pc' = "done" /\ outcome' = "exception" /\ err' = Err("OSError")
              /\ sock' = sock
         ELSE /\ sock' = [sock EXCEPT !.state = "shutdown",
                                      !.shutdowns = sock.shutdowns + 1]
              /\ Goto("s_close")
  /\ UNCHANGED <<early, arrived, mode, args, connection, peer, answer, wire, data,
                 dataEvents, success, extra_data, sent, highest, streams,
                 peerStreams, budget, events, newdata, gdCaller, urlIdx,
                 stream_id>>

\* line 226
ScanClose ==
  /\ pc = "s_close"
  /\ sock' = [sock EXCEPT !.state = "closed", !.closes = sock.closes + 1]
  /\ Exit("returned")
  /\ UNCHANGED <<early, arrived, mode, args, connection, peer, answer, wire, data,
                 dataEvents, success, extra_data, sent, highest, streams,
                 peerStreams, budget, events, newdata, gdCaller, urlIdx,
                 stream_id>>

\* ------------------------------------------------------- h2: receive_data
\* the stream states after the events of one receive_data call
StreamAfter(st, e) ==
  CASE e.kind = "StreamEnded" -> [st EXCEPT ![e.sid] = "ended"]
    [] e.kind = "StreamReset" -> [st EXCEPT ![e.sid] = "reset"]
    [] OTHER -> st

RECURSIVE receive_data(_, _)
receive_data(st, b) ==
  IF b = <<>> THEN st ELSE receive_data(StreamAfter(st, Head(b)), Tail(b))

\* an allocator that hands out the id after the highest one, whatever its parity
get_next_available_stream_id_PlusOne(h) == h + 1

\* get_next_available_stream_id()
get_next_available_stream_id(h) == h + 2

\* ------------------------------------------------------------ handle_events
\* index of the first StreamReset of evs, 0 when there is none
FirstReset(evs) ==
  LET hits == {i \in 1..Len(evs) : evs[i].kind = "StreamReset"}
  IN IF hits = {} THEN 0 ELSE CHOOSE i \in hits : \A j \in hits : i <= j

\* a handler that prints every event and raises for none
handle_events_Swallow(evs, next) == Goto(next)

\* handle_events(events, isVerbose): prints, and raises at the first StreamReset
handle_events(evs, next) ==
  IF FirstReset(evs) = 0
    THEN Goto(next)
    ELSE Raise([type |-> "RuntimeError: stream reset",
                code |-> evs[FirstReset(evs)].code])

\* ------------------------------------------------------------------ getData
\* line 95
GetDataEnter ==
  /\ pc = "gd_enter"
  /\ events' = <<>>
  /\ arrived' = <<>>
  /\ Goto("gd_recv")
  /\ UNCHANGED <<early, mode, args, sock, connection, peer, answer, wire, data,
                 dataEvents, success, extra_data, sent, highest, streams,
                 peerStreams, budget, newdata, gdCaller, urlIdx, stream_id>>

\* where getData returns to
GetDataReturn == IF gdCaller = "main" THEN "m_flush" ELSE "ssr_handle"

\* line 98: the peer sends frames
GdRecvFrames ==
  /\ pc = "gd_recv" /\ peer = "alive" /\ budget > 0
  /\ \E b \in Batches(peerStreams, Min(MaxBatch, budget)) \ {<<>>} :
       /\ newdata' = b
       /\ arrived' = arrived \o b
       /\ peerStreams' = PeerAfterAll(peerStreams, b)
       /\ budget' = budget - Len(b)
  /\ Goto("gd_feed")
  /\ UNCHANGED <<early, mode, args, sock, connection, peer, answer, wire, data,
                 dataEvents, success, extra_data, sent, highest, streams,
                 events, gdCaller, urlIdx, stream_id>>

\* line 98: nothing arrives within MAX_TIMEOUT; lines 102-105 return events
GdRecvTimeout ==
  /\ pc = "gd_recv" /\ peer = "alive"
  /\ Goto(GetDataReturn)
  /\ UNCHANGED <<early, arrived, mode, args, sock, connection, peer, answer, wire, data,
                 dataEvents, success, extra_data, sent, highest, streams,
                 peerStreams, budget, events, newdata, gdCaller, urlIdx,
                 stream_id>>

\* line 98: the peer has closed its side, recv returns b''
GdRecvEof ==
  /\ pc = "gd_recv" /\ peer \in {"alive", "closed"}
  /\ peer' = "closed"
  /\ newdata' = <<>>
  /\ Goto("gd_feed")
  /\ UNCHANGED <<early, arrived, mode, args, sock, connection, answer, wire, data,
                 dataEvents, success, extra_data, sent, highest, streams,
                 peerStreams, budget, events, gdCaller, urlIdx, stream_id>>

\* line 98: the peer resets the connection; the error is no socket.timeout
GdRecvReset ==
  /\ pc = "gd_recv" /\ peer = "alive"
  /\ peer' = "reset"
  /\ Raise(Err("ConnectionResetError"))
  /\ UNCHANGED <<early, arrived, mode, args, sock, connection, answer, wire, data,
                 dataEvents, success, extra_data, sent, highest, streams,
                 peerStreams, budget, events, newdata, gdCaller, urlIdx,
                 stream_id>>

\* line 100: len(events) > 0 and isinstance(events[-1], StreamEnded)
LastIsStreamEnded(evs) == Len(evs) > 0 /\ evs[Len(evs)].kind = "StreamEnded"

\* a pump that keeps only the events of the latest recv
GdFeed_Overwrite ==
  /\ pc = "gd_feed"
  /\ events' = newdata
  /\ streams' = receive_data(streams, newdata)
  /\ newdata' = <<>>
  /\ IF LastIsStreamEnded(events') THEN Goto(GetDataReturn) ELSE Goto("gd_recv")
  /\ UNCHANGED <<early, arrived, mode, args, sock, connection, peer, answer,
                 wire, data, dataEvents, success, extra_data, sent, highest,
                 peerStreams, budget, gdCaller, urlIdx, stream_id>>

\* lines 99-101 (and 102-105 when the loop is left)
GdFeed ==
  /\ pc = "gd_feed"
  /\ events' = events \o newdata
  /\ streams' = receive_data(streams, newdata)
  /\ newdata' = <<>>
  /\ IF LastIsStreamEnded(events') THEN Goto(GetDataReturn) ELSE Goto("gd_recv")
  /\ UNCHANGED <<early, arrived, mode, args, sock, connection, peer, answer, wire, data,
                 dataEvents, success, extra_data, sent, highest, peerStreams,
                 budget, gdCaller, urlIdx, stream_id>>

\* ------------------------------------------------------------ main's tail
\* main without the test-mode exit of lines 148-150
MainCheck_NoTestExit ==
  /\ pc = "m_check"
  /\ IF ~success THEN Exit("exit1") ELSE Goto("m_preface")
  /\ UNCHANGED <<early, arrived, mode, args, sock, connection, peer, answer, wire, data,
                 dataEvents, success, extra_data, sent, highest, streams,
                 peerStreams, budget, events, newdata, gdCaller, urlIdx,
                 stream_id>>

\* lines 144-150
MainCheck ==
  /\ pc = "m_check"
  /\ IF ~success THEN Exit("exit1")
     ELSE IF args.test THEN Exit("exit0")
     ELSE Goto("m_preface")
  /\ UNCHANGED <<early, arrived, mode, args, sock, connection, peer, answer, wire, data,
                 dataEvents, success, extra_data, sent, highest, streams,
                 peerStreams, budget, events, newdata, gdCaller, urlIdx,
                 stream_id>>

\* connection.sendall(h2_connection.data_to_send()) at pc = at, then to next
SendAll(at, m, next) ==
  /\ pc = at
  /\ \E ok \in BOOLEAN :
       IF ok
         THEN /\ sent' = Append(sent, m)
              /\ peer' = peer
              /\ Goto(next)
         ELSE /\ sent' = sent
              /\ peer' = "reset"
              /\ Raise(Err("OSError"))

\* line 152: the connection preface and SETTINGS
MainPreface ==
  /\ SendAll("m_preface", Msg("H2_PREFACE", 0, FALSE), "m_feed")
  /\ UNCHANGED <<early, arrived, mode, args, sock, connection, answer, wire, data, dataEvents,
                 success, extra_data, highest, streams, peerStreams, budget,
                 events, newdata, gdCaller, urlIdx, stream_id>>

\* main without line 154: the leftover bytes are never given to the decoder
MainFeedExtra_Skip ==
  /\ pc = "m_feed"
  /\ events' = <<>>
  /\ streams' = streams
  /\ gdCaller' = "main"
  /\ Goto("gd_enter")
  /\ UNCHANGED <<early, arrived, mode, args, sock, connection, peer, answer,
                 wire, data, dataEvents, success, extra_data, sent, highest,
                 peerStreams, budget, newdata, urlIdx, stream_id>>

\* line 154, and the call of getData at line 156
MainFeedExtra ==
  /\ pc = "m_feed"
  /\ events' = extra_data.events
  /\ streams' = receive_data(streams, extra_data.events)
  /\ gdCaller' = "main"
  /\ Goto("gd_enter")
  /\ UNCHANGED <<early, arrived, mode, args, sock, connection, peer, answer, wire, data,
                 dataEvents, success, extra_data, sent, highest, peerStreams,
                 budget, newdata, urlIdx, stream_id>>

\* line 158: acknowledgements h2 queued while decoding
MainFlush ==
  /\ SendAll("m_flush", Msg("H2_ACKS", 0, FALSE), "m_handle")
  /\ UNCHANGED <<early, arrived, mode, args, sock, connection, answer, wire, data, dataEvents,
                 success, extra_data, highest, streams, peerStreams, budget,
                 events, newdata, gdCaller, urlIdx, stream_id>>

\* line 160 (and 162-167, the list of urls)
MainHandle ==
  /\ pc = "m_handle"
  /\ handle_events(events, "loop")
  /\ UNCHANGED <<early, arrived, mode, args, sock, connection, peer, answer, wire, data,
                 dataEvents, success, extra_data, sent, highest, streams,
                 peerStreams, budget, events, newdata, gdCaller, urlIdx,
                 stream_id>>

\* a loop that starts at the second url of a longer list
MainLoop_SkipFirst ==
  /\ pc = "loop"
  /\ IF urlIdx < args.nurls
       THEN /\ urlIdx' = IF urlIdx = 0 /\ args.nurls > 1 THEN 2 ELSE urlIdx + 1
            /\ Goto("ssr_headers")
       ELSE urlIdx' = urlIdx /\ Goto("td_goaway")
  /\ UNCHANGED <<early, arrived, mode, args, sock, connection, peer, answer,
                 wire, data, dataEvents, success, extra_data, sent, highest,
                 streams, peerStreams, budget, events, newdata, gdCaller,
                 stream_id>>

\* line 169: the next url (170-187 build its headers), or the end of the loop
MainLoop ==
  /\ pc = "loop"
  /\ IF urlIdx < args.nurls
       THEN urlIdx' = urlIdx + 1 /\ Goto("ssr_headers")
       ELSE urlIdx' = urlIdx /\ Goto("td_goaway")
  /\ UNCHANGED <<early, arrived, mode, args, sock, connection, peer, answer, wire, data,
                 dataEvents, success, extra_data, sent, highest, streams,
                 peerStreams, budget, events, newdata, gdCaller, stream_id>>

\* end_stream=args.data is None
EndStreamFlag(d) == d = "None"

\* sendSmuggledRequest, lines 111-116: h2 opens the stream, then sendall
SsrHeaders ==
  /\ pc = "ssr_headers"
  /\ stream_id' = get_next_available_stream_id(highest)
  /\ highest' = stream_id'
  /\ streams' = [streams EXCEPT ![stream_id'] = "open"]
  /\ \E ok \in BOOLEAN :
       IF ok
         THEN /\ sent' = Append(sent, HeadersMsg(stream_id',
                                                 EndStreamFlag(args.data),
                                                 urlIdx))
              /\ peerStreams' = [peerStreams EXCEPT ![stream_id'] = "open"]
              /\ peer' = peer
              /\ Goto("ssr_body")
         ELSE /\ sent' = sent
              /\ peerStreams' = peerStreams
              /\ peer' = "reset"
              /\ Raise(Err("OSError"))
  /\ UNCHANGED <<early, arrived, mode, args, sock, connection, answer, wire, data, dataEvents,
                 success, extra_data, budget, events, newdata, gdCaller,
                 urlIdx>>

\* `if args.data:` is true for a non-empty string only
Truthy(d) == d = "Body"

\* lines 118-124: sendData is not defined anywhere in the module, so the
\* call raises NameError; otherwise getData is called
SsrBody ==
  /\ pc = "ssr_body"
  /\ IF Truthy(args.data)
       THEN Raise(Err("NameError")) /\ gdCaller' = gdCaller
       ELSE Goto("gd_enter") /\ gdCaller' = "ssr"
  /\ UNCHANGED <<early, arrived, mode, args, sock, connection, peer, answer, wire, data,
                 dataEvents, success, extra_data, sent, highest, streams,
                 peerStreams, budget, events, newdata, urlIdx, stream_id>>

\* line 125
SsrHandle ==
  /\ pc = "ssr_handle"
  /\ handle_events(events, "loop")
  /\ UNCHANGED <<early, arrived, mode, args, sock, connection, peer, answer, wire, data,
                 dataEvents, success, extra_data, sent, highest, streams,
                 peerStreams, budget, events, newdata, gdCaller, urlIdx,
                 stream_id>>

\* a tear-down that shuts the socket down without writing GOAWAY
TdGoaway_NoWrite ==
  /\ pc = "td_goaway"
  /\ Goto("td_shutdown")
  /\ UNCHANGED <<early, arrived, mode, args, sock, connection, peer, answer,
                 wire, data, dataEvents, success, extra_data, sent, highest,
                 streams, peerStreams, budget, events, newdata, gdCaller,
                 urlIdx, stream_id>>

\* lines 193-194: GOAWAY
TdGoaway ==
  /\ SendAll("td_goaway", Msg("GOAWAY", 0, FALSE), "td_shutdown")
  /\ UNCHANGED <<early, arrived, mode, args, sock, connection, answer, wire, data, dataEvents,
                 success, extra_data, highest, streams, peerStreams, budget,
                 events, newdata, gdCaller, urlIdx, stream_id>>

\* line 195
TdShutdown ==
  /\ pc = "td_shutdown"
  /\ IF ShutdownFails
       THEN Raise(Err("OSError")) /\ sock' = sock
       ELSE /\ sock' = [sock EXCEPT !.state = "shutdown",
                                    !.shutdowns = sock.shutdowns + 1]
            /\ Goto("td_close")
  /\ UNCHANGED <<early, arrived, mode, args, connection, peer, answer, wire, data,
                 dataEvents, success, extra_data, sent, highest, streams,
                 peerStreams, budget, events, newdata, gdCaller, urlIdx,
                 stream_id>>

\* line 196, and the return of main
TdClose ==
  /\ pc = "td_close"
  /\ sock' = [sock EXCEPT !.state = "closed", !.closes = sock.closes + 1]
  /\ Exit("completed")
  /\ UNCHANGED <<early, arrived, mode, args, connection, peer, answer, wire, data,
                 dataEvents, success, extra_data, sent, highest, streams,
                 peerStreams, budget, events, newdata, gdCaller, urlIdx,
                 stream_id>>

\* ------------------------------------------------------------ specification
Next ==
  \/ MainStart
  \/ ScanStart
  \/ establish_tcp_connection
  \/ initiate_upgrade_connection
  \/ send_initial_request
  \/ UpgCheck
  \/ UpgRecvBytes
  \/ UpgRecvTimeout
  \/ UpgRecvEof
  \/ UpgRecvReset
  \/ UpgSplit
  \/ ScanCheck
  \/ ScanExcept
  \/ ScanFinally
  \/ ScanClose
  \/ MainCheck
  \/ MainPreface
  \/ MainFeedExtra
  \/ GetDataEnter
  \/ GdRecvFrames
  \/ GdRecvTimeout
  \/ GdRecvEof
  \/ GdRecvReset
  \/ GdFeed
  \/ MainFlush
  \/ MainHandle
  \/ MainLoop
  \/ SsrHeaders
  \/ SsrBody
  \/ SsrHandle
  \/ TdGoaway
  \/ TdShutdown
  \/ TdClose

Spec == Init /\ [][Next]_vars

\* the interpreter keeps executing a run that has not ended
FairSpec == Spec /\ WF_vars(Next)

\* ------------------------------------------------------------------ claims
Ended == outcome # "running"

Released == sock.state = "closed" /\ sock.shutdowns = 1 /\ sock.closes = 1

InUpgradeRead == pc \in {"upg_check", "upg_recv"}

InGetData == pc \in {"gd_enter", "gd_recv", "gd_feed"}

\* the HEADERS frames written so far, in order
HeadersSent == SelectSeq(sent, LAMBDA m : m.kind = "HEADERS")

\* C1: whenever main ends after establish_tcp_connection returned a socket,
\* that socket has been shut down and closed exactly once.
C1_MainReleasesSocket ==
  (mode = "main" /\ Ended /\ connection) => Released

\* C2: whenever scan ends after it opened a connection, the socket has been
\* shut down and closed exactly once.
C2_ScanReleasesSocket ==
  (mode = "scan" /\ Ended /\ connection) => Released

\* C3: get_upgrade_response returns ok = TRUE exactly when the status code
\* the peer sent is 101, whatever the reason phrase and the headers, and it
\* raises IndexError only for an answer that has no status code.
C3_OkIffStatus101 ==
  /\ pc \in {"m_check", "s_check"} => (success <=> answer = Code101)
  /\ err.type = "IndexError" => answer = <<>>

C3_Witness ==
  /\ pc = "s_check" /\ ~success /\ answer = <<"1", "0", "1", "0">>

\* C4: the upgrade-response read always terminates: once in the read loop,
\* the run eventually leaves it.
C4_UpgradeReadTerminates == InUpgradeRead ~> ~InUpgradeRead

\* C5: getData always terminates: once entered, it eventually returns to its
\* caller (or an exception leaves it).
C5_GetDataTerminates == InGetData ~> ~InGetData

\* a StreamReset with code c has been decoded for the stream of the request
\* that sendSmuggledRequest is dispatching
ResetDecoded(c) ==
  /\ gdCaller = "ssr" /\ pc \in {"gd_recv", "gd_feed", "ssr_handle"}
  /\ \E i \in 1..Len(events) : events[i] = Ev("StreamReset", stream_id, c)

\* C6: once a StreamReset is decoded for the stream of the request being
\* dispatched, the dispatch ends in a stream-reset error that carries the
\* received code, whatever the peer does next.
C6_ResetSurfaces ==
  \A c \in ResetCodes :
    ResetDecoded(c) ~>
      (pc = "done" /\ err = [type |-> "RuntimeError: stream reset", code |-> c])

\* C7: at every point of the exploit loop at most one smuggled stream is
\* non-terminal (neither Ended nor Reset).
C7_OneOpenStream ==
  Cardinality({s \in StreamIds \ {1} :
                 /\ streams[s] = "open"
                 /\ \E i \in 1..Len(HeadersSent) : HeadersSent[i].sid = s}) <= 1

\* C8: the stream ids of the dispatched requests are odd, strictly
\* increasing, and none is the id of the upgrade request's stream (1) or of
\* an earlier request.
C8_StreamIdsOddIncreasing ==
  /\ \A i \in 1..Len(HeadersSent) :
       /\ HeadersSent[i].sid % 2 = 1
       /\ HeadersSent[i].sid > 1
       /\ \A j \in 1..(i - 1) : HeadersSent[j].sid < HeadersSent[i].sid
  /\ stream_id # 0 =>
       /\ stream_id % 2 = 1
       /\ stream_id > 1
       /\ \A j \in 1..Len(HeadersSent) :
            HeadersSent[j].sid <= stream_id
       /\ Cardinality({j \in 1..Len(HeadersSent) :
                         HeadersSent[j].sid = stream_id}) <= 1

C8_Witness ==
  /\ Len(HeadersSent) = 2
  /\ HeadersSent[1].sid = 3 /\ HeadersSent[2].sid = 5

\* C9: HTTP/2 bytes are written only after a 101 answer and outside test
\* mode: otherwise the upgrade request is all that is ever sent.
C9_NoH2WithoutUpgrade ==
  \A i \in 1..Len(sent) :
    sent[i].kind # "UPGRADE_REQUEST" =>
      /\ mode = "main" /\ ~args.test
      /\ success /\ answer = Code101

C9_Witness ==
  \/ /\ outcome = "exit1" /\ answer = <<"4", "0", "3">>
     /\ sent = <<UpgradeRequest>>
  \/ /\ outcome = "exit0" /\ args.test /\ sent = <<UpgradeRequest>>

\* C10: when getData is called for a dispatched request, the client side of
\* its stream is ended: by the HEADERS frame iff the request has no body,
\* else by a DATA frame written before.
C10_ClientSideEnded ==
  (gdCaller = "ssr" /\ pc = "gd_enter") =>
    /\ \E i \in 1..Len(sent) : sent[i].sid = stream_id /\ sent[i].es
    /\ \A i \in 1..Len(sent) :
         (sent[i].kind = "HEADERS" /\ sent[i].sid = stream_id) =>
           (sent[i].es <=> args.data = "None")

\* the stream state h2 has after initiate_upgrade_connection
StreamsAtUpgrade == [s \in StreamIds |-> IF s = 1 THEN "open" ELSE "idle"]

ResetRaised == err.type = "RuntimeError: stream reset"

\* C11: scan returns normally to its driver whatever fails inside it: no
\* exception propagates out of scan.
C11_ScanReturnsNormally ==
  (mode = "scan" /\ Ended) => outcome = "returned"

\* C12: in exploit mode the tunnel bytes the peer delivered together with
\* its upgrade answer are what get_upgrade_response hands back, and they
\* are decoded, whole and in order, before getData reads the socket again.
C12_LeftoverFedFirst ==
  /\ (mode = "main" /\ pc = "m_preface") =>
       extra_data = [none |-> FALSE, text |-> <<>>, events |-> early]
  /\ (gdCaller = "main" /\ pc = "gd_enter") =>
       /\ events = early
       /\ streams = receive_data(StreamsAtUpgrade, early)

C12_Witness ==
  /\ gdCaller = "main" /\ pc = "gd_enter"
  /\ Len(early) = 2 /\ early[2].kind = "StreamEnded"
  /\ streams[1] = "ended"

\* C13: once handle_events has raised a stream reset the run is over with
\* a failure outcome and no later request has been opened or written; events
\* that hold a reset never pass handle_events; and a run completes only
\* after every url of the list was dispatched and handled.
C13_AbortAtFirstReset ==
  /\ ResetRaised =>
       /\ pc = "done" /\ outcome = "exception"
       /\ Len(HeadersSent) = urlIdx
       /\ highest = 2 * urlIdx + 1
  /\ pc \in {"loop", "ssr_headers", "td_goaway"} => FirstReset(events) = 0
  /\ outcome = "completed" =>
       /\ urlIdx = args.nurls /\ Len(HeadersSent) = args.nurls
       /\ ~ResetRaised

C13_Witness ==
  /\ ResetRaised /\ urlIdx = 1 /\ args.nurls = 2
  /\ Len(HeadersSent) = 1

\* C14: a dispatch whose stream the peer never ended does not pass as a
\* completed exchange: when the loop goes on after a request, the stream of
\* that request has ended.
C14_NoEndIsFailure ==
  (pc = "loop" /\ stream_id # 0) => streams[stream_id] = "ended"

\* C15: a target whose scheme is neither http nor https never gets a socket;
\* an accepted target is TLS-wrapped iff its scheme is https, with default
\* port 80 for http and 443 for https.
C15_SchemeChecked ==
  /\ args.scheme \notin {"http", "https"} =>
       /\ sock.state = "none"
       /\ Ended => outcome \in {"exit1", "returned"}
  /\ sock.state # "none" =>
       /\ sock.tls <=> args.scheme = "https"
       /\ args.scheme = "http" => sock.port = 80
       /\ args.scheme = "https" => sock.port = 443

\* C16: the exploit loop writes one HEADERS frame per url, in list order:
\* the i-th request written is the one for the i-th url, and a completed run
\* has written one for every url.
C16_OneStreamPerUrlInOrder ==
  /\ \A i \in 1..Len(HeadersSent) : HeadersSent[i].url = i
  /\ Len(HeadersSent) <= args.nurls
  /\ outcome = "completed" => Len(HeadersSent) = args.nurls
  /\ Len(HeadersSent) > 0 => sock.state # "none" /\ highest >= 3

C16_Witness ==
  /\ outcome = "completed" /\ args.nurls = 2
  /\ Len(HeadersSent) = 2
  /\ HeadersSent[1].url = 1 /\ HeadersSent[2].url = 2

\* C17: getData returns the events in the order they arrived, none dropped,
\* and never reads the socket while the last accumulated event is
\* StreamEnded.
C17_EventsInArrivalOrder ==
  /\ pc \in {"m_flush", "ssr_handle"} => events = arrived
  /\ pc = "gd_recv" => ~LastIsStreamEnded(events)
  /\ pc \in {"gd_recv", "gd_feed"} => events \o newdata = arrived

C17_Witness ==
  /\ pc = "ssr_handle"
  /\ events = <<Ev("ResponseReceived", stream_id, 0),
                Ev("DataReceived", stream_id, 0),
                Ev("StreamEnded", stream_id, 0)>>
  /\ budget = 0

\* C18: in main, GOAWAY is written only after the last request was handled
\* and is the last write; the socket is shut down only after it, closed only
\* after the shutdown, and nothing runs after the close.
C18_TearDownOrdered ==
  mode = "main" =>
    /\ (\E i \in 1..Len(sent) : sent[i].kind = "GOAWAY") =>
         /\ sent[Len(sent)].kind = "GOAWAY"
         /\ urlIdx = args.nurls /\ Len(HeadersSent) = args.nurls
         /\ pc \in {"td_shutdown", "td_close", "done"}
    /\ sock.shutdowns > 0 =>
         /\ sock.shutdowns = 1
         /\ Len(sent) > 0 /\ sent[Len(sent)].kind = "GOAWAY"
         /\ pc \in {"td_close", "done"}
    /\ sock.closes > 0 =>
         /\ sock.closes = 1 /\ sock.shutdowns = 1
         /\ pc = "done" /\ outcome = "completed"
    /\ outcome = "completed" => sock.state = "closed"

C18_Witness ==
  /\ mode = "main" /\ outcome = "completed"
  /\ sock.state = "closed" /\ Len(HeadersSent) = 2

\* C19: the events decoded from the leftover bytes of the upgrade response
\* are among the events main passes to handle_events at line 160, and a
\* StreamReset among them ends the run with a stream-reset error.
C19_LeftoverEventsHandled ==
  /\ pc = "m_handle" =>
       /\ Len(events) >= Len(early)
       /\ SubSeq(events, 1, Len(early)) = early
  /\ pc = "loop" => FirstReset(early) = 0

\* C20: every stream event that the getData call of a request returns
\* carries the stream id allocated for that request.
C20_EventsOfOwnStream ==
  (gdCaller = "ssr" /\ pc = "ssr_handle") =>
    \A i \in 1..Len(events) :
      events[i].kind # "Other" => events[i].sid = stream_id

====
